---- MODULE Spec2Model ----
(***************************************************************************)
(* Model of the OpenStack machine actuator                                 *)
(* (pkg/cloud/openstack/machine/actuator.go): the Create / Delete / Update *)
(* reconciliation entry points, the error funnel handleMachineError, the   *)
(* recorder updateAnnotation and the helpers they call.                    *)
(*                                                                         *)
(* The cloud is a set of instances, the API server holds one persisted     *)
(* machine record (stored); every operation works on an in-memory copy of  *)
(* that record (machine) and persists it only through client.Update /      *)
(* client.Status().Update.  Every external call may fail: an operation is  *)
(* run under an environment env that names the call site that fails.       *)
(***************************************************************************)
EXTENDS Naturals, Sequences, FiniteSets

VARIABLES
    stored,      \* the machine record persisted by the control plane
    machine,     \* the in-memory machine object of the current / last operation
    instances,   \* the cloud: the set of instances of the compute service
    nextId,      \* the next instance identifier the cloud hands out
    client,      \* TRUE iff oc.client (the machine-record client) is configured
    pc,          \* "idle", "poll" while Update waits in PollImmediate, "returned"
                 \* when an operation has returned to the control loop
    polls,       \* condition checks PollImmediate has made so far
    op,          \* the last operation invoked
    result,      \* its outcome: "ok", "error", "panic", "running"
    err,         \* the error it returned ("" when none)
    failed,      \* the call site that failed in it, NoFault when none did
    calls,       \* the functions and external calls it invoked
    events,      \* the events it emitted through the event recorder
    afterCreate, \* TRUE iff the operation before it was a Create that returned
                 \* ok, and nothing happened in between
    cancelled,   \* TRUE iff the caller has cancelled the ctx of the operation
    input,       \* the arguments of the function applied (function checks)
    output,      \* what it returned
    creates,     \* the Create invocations of the control-loop processes that
                 \* overlap (concurrency checks): where each one is, and what
                 \* it holds
    window       \* the timeout Update has given to PollImmediate, nil when
                 \* Update is not in the poll

vars == <<stored, machine, instances, nextId, client, pc, polls,
          op, result, err, failed, calls, events, afterCreate, cancelled,
          input, output, creates, window>>

----------------------------------------------------------------------------
(* Bounds of the model *)

\* instances the cloud hands out identifiers for
MaxInstances == 2
\* condition checks of PollImmediate that fit in the delete timeout
MaxPolls == 2

----------------------------------------------------------------------------
(* Program constants *)

ErrorState == "ERROR"

createEventAction == "Create"
updateEventAction == "Update"
deleteEventAction == "Delete"
noEventAction == ""

\* MachineError reasons built by maoMachine.InvalidMachineConfiguration,
\* CreateMachine, DeleteMachine, UpdateMachine
InvalidConfiguration == "InvalidConfiguration"
CreateError == "CreateError"
DeleteError == "DeleteError"
UpdateError == "UpdateError"
\* any error that is not a MachineError (fmt.Errorf, or a collaborator's error)
PlainError == "Error"

----------------------------------------------------------------------------
(* The environment of the model *)

MachineName == "m"
Namespace == "ns"
\* clusterInfra.Status.InfrastructureName
InfrastructureName == "c1"
ClusterLabels == {"c1", "c2"}
RegionName == "region1"
Zone == "az1"
Image == "img1"
Flavors == {"f1", "f2"}
SpecMetas == {"meta1", "meta2"}

\* the networks of the cloud: name, subnets, tags
Networks ==
    { [name |-> "net-a", subnets |-> {"sub-a"}, tags |-> {<<"c1", "-primaryClusterNetwork">>}],
      [name |-> "net-b", subnets |-> {"sub-b"}, tags |-> {}] }

\* a pointer that is nil, and a pointer to x
Nil == <<>>
Ptr(x) == <<x>>
Deref(p) == p[1]

\* the identifiers the cloud hands out, in order
InstanceIds == <<"i1", "i2", "i3", "i4", "i5">>
\* strings net.ParseIP accepts
ValidIPs == {"10.0.0.5", "192.168.0.9", "172.16.0.7", "fe80::1"}

----------------------------------------------------------------------------
(* Data *)

\* openstackconfigv1.OpenstackProviderSpec as carried in machine.Spec.ProviderSpec;
\* valid = FALSE is a payload MachineSpecFromProviderSpec cannot unmarshal
ProviderSpec(valid, flavor, floatingIP, primarySubnet) ==
    [valid |-> valid, image |-> Image, flavor |-> flavor,
     floatingIP |-> floatingIP, primarySubnet |-> primarySubnet]

\* machinev1.Machine as the control plane creates it: nothing recorded yet.
\* The record is versioned by the API server; of an object's resourceVersion
\* the model keeps whether it is still the persisted record's (fresh)
NewMachine(cluster, master, meta, ps) ==
    [name |-> MachineName,
     fresh |-> TRUE,
     labels |-> [cluster |-> cluster, master |-> master,
                 region |-> "", zone |-> "", instanceType |-> ""],
     annotations |-> [id |-> "", ip |-> "", state |-> "", instanceStatus |-> Nil],
     spec |-> [meta |-> meta, providerSpec |-> ps],
     status |-> [errorReason |-> "", errorMessage |-> <<>>, addresses |-> <<>>]]

\* the address profiles an instance of the model can have: per network the
\* list of its interfaces
AddressProfiles ==
    { [n \in {} |-> <<>>],
      [n \in {"net-a"} |-> << [addr |-> "10.0.0.5", version |-> 4] >>],
      [n \in {"net-a", "net-b"} |->
          IF n = "net-a" THEN << [addr |-> "10.0.0.5", version |-> 4] >>
                         ELSE << [addr |-> "fe80::1", version |-> 6],
                                 [addr |-> "192.168.0.9", version |-> 4] >>] }

InstanceStatuses == {"ACTIVE", "BUILD"}

\* what the cloud decides about an instance it creates
\* (an instance still building has no address yet)
NewInstanceChoices ==
    { ni \in [status : InstanceStatuses, addresses : AddressProfiles, accessIPv4 : {""}] :
        ni.status = "BUILD" <=> DOMAIN ni.addresses = {} }

\* the state an operation works on: the persisted record, the cloud, and the
\* trace of what the operation called and emitted, and of how many times it
\* wrote the record (each write gives the record a new resourceVersion)
Ctx(st, inst, next, cl) ==
    [st |-> st, inst |-> inst, next |-> next, client |-> cl, calls |-> {}, ev |-> {},
     failed |-> <<"", "">>, writes |-> 0]

\* the API server stores the record `st`
Write(c, st) == [c EXCEPT !.st = st, !.writes = @ + 1]

Call(c, name) == [c EXCEPT !.calls = @ \cup {name}]
\* oc.eventRecorder.Eventf(machine, eventType, reason, ...)
Eventf(c, type, reason) == [c EXCEPT !.ev = @ \cup {<<type, reason>>}]

\* the failure of a call site is remembered: c.failed is the last site that failed
Failed(c, site) == [c EXCEPT !.failed = site]

\* the outcome of an operation: state, in-memory machine, result, error
Ret(c, m, res, e) == [c |-> c, m |-> m, res |-> res, err |-> e]

\* an operation has come to the remote call `stage` and has not returned: it
\* holds the in-memory machine and the local variable it needs from there on
GoesOn(c, m, stage, local) ==
    [c |-> c, m |-> m, res |-> stage, err |-> "", local |-> local]

\* a call site is <<function, call>>; env.f names the call site that fails in
\* this run, NoFault when none does
NoFault == <<"", "">>
Fails(env, site) == env.f = site

\* env.fin names the call of the operation after whose return the cloud
\* finishes the deletions it has started, while the operation runs; NoCall when
\* it does not. The calls are the instance lookups of the operation: the run in
\* which the cloud finishes anywhere between two lookups, or between the last
\* lookup and the return, is the run in which it finishes just after the
\* earlier lookup
NoCall == <<"", "">>
CloudFinishes(c, env, site) ==
    IF env.fin = site THEN [c EXCEPT !.inst = {i \in @ : ~i.deleting}] ELSE c
\* the site env fails has been reached, or may have been
Fail(c, env) == Failed(c, env.f)
FailIf(c, env, site) == IF Fails(env, site) THEN Failed(c, site) ELSE c

----------------------------------------------------------------------------
(* The cloud's lookups *)

\* the first element of a set of instances: the one created first
FirstInstance(S) == CHOOSE i \in S : \A j \in S : i.n <= j.n

\* computeService.GetInstanceStatusByName: the instance of that name, or nil
GetInstanceStatusByName(inst, name) ==
    LET found == {i \in inst : i.name = name}
    IN IF found = {} THEN Nil ELSE Ptr(FirstInstance(found))

\* machineService.GetInstanceList(opts): the instances matching
\* opts = {Name, Image, Flavor}
GetInstanceList(inst, opts) ==
    {i \in inst : i.name = opts.name /\ i.image = opts.image /\ i.flavor = opts.flavor}

\* openstackconfigv1.MachineSpecFromProviderSpec: the parsed spec, or nil with an error
MachineSpecFromProviderSpec(ps) == IF ps.valid THEN Ptr(ps) ELSE Nil

\* instanceExists under the call site `site`: [res, instance]
instanceExists(c, m, env, site) ==
    LET machineSpec == MachineSpecFromProviderSpec(m.spec.providerSpec) IN
    IF machineSpec = Nil THEN [res |-> "error", instance |-> Nil]
    ELSE IF Fails(env, site) THEN [res |-> "error", instance |-> Nil]
    ELSE LET instanceList ==
                 GetInstanceList(c.inst, [name |-> m.name,
                                          image |-> Deref(machineSpec).image,
                                          flavor |-> Deref(machineSpec).flavor])
         IN IF instanceList = {} THEN [res |-> "ok", instance |-> Nil]
            ELSE [res |-> "ok", instance |-> Ptr(FirstInstance(instanceList))]

----------------------------------------------------------------------------
(* The error funnel *)

\* err.Message of a MachineError: the model keeps that there is one, not its text
ErrorMessage(reason, message) == <<reason, "message">>

\* machine with the error recorded on it (lines 637-646)
MarkError(m, reason, message) ==
    [m EXCEPT !.status.errorReason = reason,
              !.status.errorMessage = ErrorMessage(reason, message),
              !.annotations.state = ErrorState]

\* client.Update(machine): the record is replaced by the object
clientUpdate(c, m) == Write(Call(c, "client.Update"), m)

\* the object carries an older resourceVersion than the record: the API
\* server refuses to write it
Conflict(m) == ~m.fresh

\* client.Update fails: the caller's environment makes it fail, or there is a
\* conflict
UpdateFails(m, env) == env.u \/ Conflict(m)

UpdateStatusFailed == "unable to update machine status"
\* the call site of client.Update in handleMachineError (line 648)
FunnelSite == <<"handleMachineError", "client.Update">>

\* handleMachineError(machine, err, eventAction); env.u makes its client.Update fail
handleMachineError(c, m, reason, message, eventAction, env) ==
    LET c0 == Call(c, "handleMachineError")
        c1 == IF eventAction # noEventAction
              THEN Eventf(c0, "Warning", <<"Failed", eventAction>>)
              ELSE c0
    IN IF c.client
       THEN LET m1 == MarkError(m, reason, message) IN
            IF UpdateFails(m1, env)
            THEN Ret(Failed(Call(c1, "client.Update"), FunnelSite), m1, "error",
                     UpdateStatusFailed)
            ELSE Ret(clientUpdate(c1, m1), m1, "error", reason)
       ELSE Ret(c1, m, "error", reason)

----------------------------------------------------------------------------
(* Delete *)

\* computeService.DeleteInstance: the instance is gone at once (env.imm), or is
\* marked as being deleted and goes later
DeleteInstance(inst, i, env) ==
    IF env.imm THEN inst \ {i}
    ELSE (inst \ {i}) \cup {[i EXCEPT !.deleting = TRUE]}

\* a Delete that reports a deletion although it found nothing
DeleteSkippedWithEvent(c, m) == Ret(Eventf(c, "Normal", "Deleted"), m, "ok", "")

\* lines 387-390 of Delete: nothing to delete
DeleteSkipped(c, m) == Ret(c, m, "ok", "")

\* the instance is still in the cloud
InCloud(inst, i) == \E j \in inst : j.id = i.id

\* Delete(ctx, machine); DeleteInstance fails when the instance the lookup
\* found is gone by the time it is called
Delete(c, m, env) ==
    LET c1 == Call(Call(c, "Delete"), "getProviderClient") IN
    IF Fails(env, <<"Delete", "getProviderClient">>) THEN Ret(Fail(c1, env), m, "error", PlainError)
    ELSE IF Fails(env, <<"Delete", "compute.NewService">>) THEN Ret(Fail(c1, env), m, "error", PlainError)
    ELSE LET c2 == Call(c1, "GetInstanceStatusByName") IN
    IF Fails(env, <<"Delete", "GetInstanceStatusByName">>)
    THEN handleMachineError(Fail(c2, env), m, DeleteError, "error getting OpenStack instance",
                            deleteEventAction, env)
    ELSE LET instanceStatus == GetInstanceStatusByName(c2.inst, m.name) IN
    IF instanceStatus = Nil THEN DeleteSkipped(c2, m)
    ELSE LET c3 == Call(CloudFinishes(c2, env, <<"Delete", "GetInstanceStatusByName">>),
                        "DeleteInstance") IN
    IF Fails(env, <<"Delete", "DeleteInstance">>) \/ ~InCloud(c3.inst, Deref(instanceStatus))
    THEN handleMachineError(Failed(c3, <<"Delete", "DeleteInstance">>), m, DeleteError,
                            "error deleting Openstack instance", deleteEventAction, env)
    ELSE Ret(Eventf([c3 EXCEPT !.inst = DeleteInstance(@, Deref(instanceStatus), env)],
                    "Normal", "Deleted"),
             m, "ok", "")

----------------------------------------------------------------------------
(* Addresses *)

\* net.ParseIP(s): the address, nil when s is not the text of an IPv4 or IPv6
\* address
ParseIP(s) == IF s \in ValidIPs THEN Ptr(s) ELSE Nil

\* the interfaces of a network's list with Version == 4.0 (line 528)
IPv4Interfaces(list) == {k \in DOMAIN list : list[k].version = 4}

\* the address of the last IPv4 interface of a network's list: each one
\* overwrites addrMap[networkName] (line 529)
LastIPv4(list) ==
    LET v4 == IPv4Interfaces(list)
    IN list[CHOOSE k \in v4 : \A j \in v4 : j <= k].addr

\* getIPsFromInstance(instance): [res, map]; a nil instance is dereferenced
getIPsFromInstance(instance) ==
    IF instance = Nil THEN [res |-> "panic", map |-> <<>>]
    ELSE LET i == Deref(instance) IN
    IF i.accessIPv4 # "" /\ ParseIP(i.accessIPv4) # Nil
    THEN [res |-> "ok", map |-> [n \in {""} |-> i.accessIPv4]]
    ELSE LET nets == {n \in DOMAIN i.addresses : IPv4Interfaces(i.addresses[n]) # {}}
             addrMap == [n \in nets |-> LastIPv4(i.addresses[n])]
         IN IF nets = {} THEN [res |-> "error", map |-> <<>>]
            ELSE [res |-> "ok", map |-> addrMap]

\* getNetworkBySubnet(client, subnetID): the network owning the subnet, or nil
getNetworkBySubnet(networks, subnetID) ==
    LET owners == {n \in networks : subnetID \in n.subnets}
    IN IF owners = {} THEN Nil ELSE Ptr(CHOOSE n \in owners : TRUE)

\* a tag lookup that takes any of several tagged networks
getAnyNetworkByPrimaryNetworkTag(networks, primaryNetworkTag) ==
    LET allNetworks == {n \in networks : primaryNetworkTag \in n.tags}
    IN IF allNetworks = {} THEN Nil ELSE Ptr(CHOOSE n \in allNetworks : TRUE)

\* getNetworkByPrimaryNetworkTag(client, tag): the one network carrying the tag
getNetworkByPrimaryNetworkTag(networks, primaryNetworkTag) ==
    LET allNetworks == {n \in networks : primaryNetworkTag \in n.tags}
    IN IF Cardinality(allNetworks) = 0 THEN Nil
       ELSE IF Cardinality(allNetworks) = 1 THEN Ptr(CHOOSE n \in allNetworks : TRUE)
       ELSE Nil

\* the address mapAddr holds for the network, nil when it has no entry of that
\* name (lines 619-625)
AddressOfNetwork(mapAddr, networkName) ==
    IF networkName \in DOMAIN mapAddr THEN Ptr(mapAddr[networkName]) ELSE Nil

\* a resolver that has no single-network shortcut
NoSingleNetwork(mapAddr) == FALSE

\* the single-network test of line 579
SingleNetwork(mapAddr) == Cardinality(DOMAIN mapAddr) = 1

\* getPrimaryMachineIP(mapAddr, machine, clusterInfraName): [c, res, ip]
getPrimaryMachineIP(c, networks, mapAddr, m, clusterInfraName, env) ==
    IF SingleNetwork(mapAddr)
    THEN [c |-> c, res |-> "ok", ip |-> mapAddr[CHOOSE n \in DOMAIN mapAddr : TRUE]]
    ELSE LET config == MachineSpecFromProviderSpec(m.spec.providerSpec)
             bad(cc) == [c |-> cc, res |-> "error", ip |-> ""]
         IN
    IF config = Nil THEN bad(c)
    ELSE LET primarySubnet == Deref(config).primarySubnet
             c1 == Call(c, "getProviderClient")
         IN
    IF Fails(env, <<"getPrimaryMachineIP", "getProviderClient">>) THEN bad(Fail(c1, env))
    ELSE IF Fails(env, <<"getPrimaryMachineIP", "NewNetworkV2">>) THEN bad(Fail(c1, env))
    ELSE LET c2 == IF primarySubnet # "" THEN Call(c1, "getNetworkBySubnet")
                   ELSE Call(c1, "getNetworkByPrimaryNetworkTag")
             site == IF primarySubnet # "" THEN <<"getPrimaryMachineIP", "getNetworkBySubnet">>
                     ELSE <<"getPrimaryMachineIP", "getNetworkByPrimaryNetworkTag">>
             primaryNetwork ==
                 IF primarySubnet # "" THEN getNetworkBySubnet(networks, primarySubnet)
                 ELSE getNetworkByPrimaryNetworkTag(
                          networks, <<clusterInfraName, "-primaryClusterNetwork">>)
         IN
    IF Fails(env, site) \/ primaryNetwork = Nil THEN bad(FailIf(c2, env, site))
    ELSE LET addr == AddressOfNetwork(mapAddr, Deref(primaryNetwork).name) IN
         IF addr # Nil THEN [c |-> c2, res |-> "ok", ip |-> Deref(addr)] ELSE bad(c2)

----------------------------------------------------------------------------
(* The recorder *)

\* the serialised machine kept in the instance-status annotation. Of the
\* serialised object the model keeps the fields the actuator reads back: the
\* name, the labels and the spec
EncodeInstanceStatus(m) == Ptr([name |-> m.name, labels |-> m.labels, spec |-> m.spec])
\* the machine decoded from the annotation, nil when the annotation is empty.
\* Its resourceVersion is the one it was serialised with, older than the
\* record's, which was updated to store the annotation
DecodeInstanceStatus(a) ==
    IF a = Nil THEN Nil
    ELSE Ptr([NewMachine("", FALSE, "", Deref(a).spec.providerSpec) EXCEPT
                 !.name = Deref(a).name,
                 !.labels = Deref(a).labels,
                 !.spec = Deref(a).spec,
                 !.fresh = FALSE])

\* updateInstanceStatus(machine): the fetched record gets the annotation and is updated
updateInstanceStatus(c, m, env) ==
    LET c1 == Call(c, "updateInstanceStatus") IN
    IF Fails(env, <<"updateAnnotation", "updateInstanceStatus">>)
    THEN Ret(Fail(c1, env), m, "error", PlainError)
    ELSE Ret(Write(c1, [c1.st EXCEPT !.annotations.instanceStatus = EncodeInstanceStatus(m)]),
             m, "ok", "")

\* the node addresses built at lines 686-700
NodeAddresses(primaryIP, name) ==
    << [type |-> "InternalIP", address |-> primaryIP],
       [type |-> "Hostname", address |-> name],
       [type |-> "InternalDNS", address |-> name] >>

\* a comparison that finds every address list different
AddressesAlwaysDiffer(m, networkAddresses) == TRUE

\* !equality.Semantic.DeepEqual(machine.Status.Addresses, machineCopy.Status.Addresses)
AddressesDiffer(m, networkAddresses) == m.status.addresses # networkAddresses

\* lines 686-711 of updateAnnotation: the status write; it goes on to
\* updateInstanceStatus
updateAnnotationStatus(c, m, primaryIP, env) ==
    LET networkAddresses == NodeAddresses(primaryIP, m.name)
        changed == AddressesDiffer(m, networkAddresses)
        site == <<"updateAnnotation", "client.Status.Update">>
        c1 == IF changed THEN Call(c, "client.Status.Update") ELSE c
    IN IF changed /\ (Fails(env, site) \/ Conflict(m))
       THEN Ret(Failed(c1, site), m, "error", PlainError)
       ELSE GoesOn(IF changed
                   THEN Write(c1, [c1.st EXCEPT !.status =
                                      [m.status EXCEPT !.addresses = networkAddresses]])
                   ELSE c1,
                   m, "instanceStatus", Nil)

NilDereference == "nil pointer dereference"

\* line 682 of updateAnnotation: oc.client.Update(machine); it goes on to the
\* status write with the primary IP
updateAnnotationUpdate(c, m, primaryIP, env) ==
    IF ~c.client THEN Ret(c, m, "panic", NilDereference)
    ELSE IF Fails(env, <<"updateAnnotation", "client.Update">>) \/ Conflict(m)
    THEN Ret(Failed(Call(c, "client.Update"), <<"updateAnnotation", "client.Update">>),
             m, "error", PlainError)
    ELSE GoesOn(clientUpdate(c, m), m, "status", primaryIP)

\* lines 657-680 of updateAnnotation: the instance is fetched again, the
\* annotations are set on the in-memory machine; it goes on to oc.client.Update
updateAnnotationLookup(c, m, instanceID, clusterInfraName, env) ==
    LET m1 == [m EXCEPT !.annotations.id = instanceID]
        site == <<"updateAnnotation", "instanceExists">>
        c0 == FailIf(Call(Call(c, "updateAnnotation"), "instanceExists"), env, site)
        found == instanceExists(c0, m1, env, site)
        c1 == CloudFinishes(c0, env, site)
        ips == getIPsFromInstance(found.instance)
    IN
    IF ips.res = "panic" THEN Ret(c1, m1, "panic", NilDereference)
    ELSE IF ips.res = "error" THEN Ret(c1, m1, "error", PlainError)
    ELSE LET pip == getPrimaryMachineIP(c1, Networks, ips.map, m1, clusterInfraName, env) IN
    IF pip.res = "error" THEN Ret(pip.c, m1, "error", PlainError)
    ELSE LET m2 == [m1 EXCEPT !.annotations.ip = pip.ip,
                              !.annotations.state = Deref(found.instance).status]
         IN
    GoesOn(pip.c, m2, "update", pip.ip)

\* updateAnnotation from line 712 on, the status write having come out as
\* `written`: an error is returned, otherwise updateInstanceStatus is called
updateAnnotationAfterStatus(written, env) ==
    IF written.res # "instanceStatus" THEN written
    ELSE updateInstanceStatus(written.c, written.m, env)

\* updateAnnotation from line 686 on, oc.client.Update having come out as
\* `updated`
updateAnnotationAfterUpdate(updated, env) ==
    IF updated.res # "status" THEN updated
    ELSE updateAnnotationAfterStatus(
             updateAnnotationStatus(updated.c, updated.m, updated.local, env), env)

\* updateAnnotation from line 682 on, the lookups having come out as `looked`
updateAnnotationAfterLookup(looked, env) ==
    IF looked.res # "update" THEN looked
    ELSE updateAnnotationAfterUpdate(
             updateAnnotationUpdate(looked.c, looked.m, looked.local, env), env)

\* updateAnnotation(machine, instanceID, clusterInfraName)
updateAnnotation(c, m, instanceID, clusterInfraName, env) ==
    updateAnnotationAfterLookup(
        updateAnnotationLookup(c, m, instanceID, clusterInfraName, env), env)

----------------------------------------------------------------------------
(* Create *)

\* validateMachine(machine) called from `at`: TRUE iff it returns no error. The
\* image, flavor and availability-zone checks are one call site of the cloud
validateMachine(m, env, at) ==
    /\ MachineSpecFromProviderSpec(m.spec.providerSpec) # Nil
    /\ ~Fails(env, <<at, "validateMachine">>)

\* setMachineLabels(machine, region, availability_zone, flavor)
setMachineLabels(m, region, zone, flavor) ==
    IF m.labels.region # "" /\ m.labels.zone # "" /\ m.labels.instanceType # ""
    THEN m
    ELSE [m EXCEPT !.labels.region = region,
                   !.labels.zone = zone,
                   !.labels.instanceType = flavor]

\* a label check that accepts every cluster label
AnyClusterLabel(m, clusterInfraName) == TRUE

\* the cluster-membership check of line 253
ClusterLabelMatches(m, clusterInfraName) == m.labels.cluster = clusterInfraName

\* the instance computeService.CreateInstance makes for the machine
NewInstance(c, m, providerSpec, env) ==
    [n |-> c.next, id |-> InstanceIds[c.next], name |-> m.name,
     image |-> providerSpec.image, flavor |-> providerSpec.flavor,
     status |-> env.ni.status, addresses |-> env.ni.addresses,
     accessIPv4 |-> env.ni.accessIPv4, deleting |-> FALSE]

\* lines 343-364 of Create: the floating IP, the event, the labels; it goes on
\* to updateAnnotation with the instance's ID
CreateFloatingIP(c, m, providerSpec, instance, env) ==
    LET createFailed(cc, message) ==
            handleMachineError(cc, m, CreateError, message, createEventAction, env)
        c1 == Call(c, "GetOrCreateFloatingIP")
        c2 == Call(c1, "GetManagementPort")
        c3 == Call(c2, "AssociateFloatingIP")
        c4 == IF providerSpec.floatingIP # "" THEN c3 ELSE c
    IN
    IF providerSpec.floatingIP # "" /\ Fails(env, <<"Create", "GetOrCreateFloatingIP">>)
    THEN createFailed(Fail(c1, env), "Get floatingIP err")
    ELSE IF providerSpec.floatingIP # "" /\ Fails(env, <<"Create", "GetManagementPort">>)
    THEN createFailed(Fail(c2, env), "Get management port err")
    ELSE IF providerSpec.floatingIP # "" /\ Fails(env, <<"Create", "AssociateFloatingIP">>)
    THEN createFailed(Fail(c3, env), "Associate floatingIP err")
    ELSE GoesOn(Eventf(c4, "Normal", "Created"),
                setMachineLabels(m, RegionName, Zone, providerSpec.flavor),
                "annotate", instance.id)

\* Create from line 365 on, lines 343-364 having come out as `associated`: an
\* error is returned, otherwise updateAnnotation is called with the instance's ID
CreateAfterFloatingIP(associated, clusterInfraName, env) ==
    IF associated.res # "annotate" THEN associated
    ELSE updateAnnotation(associated.c, associated.m, associated.local,
                          clusterInfraName, env)

\* lines 343-365 of Create: the floating IP, the event, the labels, the recorder
CreateRecord(c, m, providerSpec, instance, clusterInfraName, env) ==
    CreateAfterFloatingIP(CreateFloatingIP(c, m, providerSpec, instance, env),
                          clusterInfraName, env)

\* lines 313-341 of Create: the user data, then the instance; it goes on to the
\* floating IP with the instance
CreateUserDataAndInstance(c, m, providerSpec, env) ==
    LET c1 == Call(c, "getUserData") IN
    IF Fails(env, <<"getUserData", "Secrets.Get">>) THEN Ret(Fail(c1, env), m, "error", PlainError)
    ELSE IF Fails(env, <<"getUserData", "startupScript">>)
    THEN handleMachineError(Fail(c1, env), m, CreateError, "error creating Openstack instance",
                            createEventAction, env)
    ELSE IF Fails(env, <<"Create", "NewOpenStackMachine">>)
    THEN Ret(Fail(c1, env), m, "error", PlainError)
    ELSE LET c2 == Call(c1, "CreateInstance") IN
    IF Fails(env, <<"Create", "CreateInstance">>)
    THEN handleMachineError(Fail(c2, env), m, CreateError, "error creating Openstack instance",
                            createEventAction, env)
    ELSE IF c.next > MaxInstances THEN Ret(c2, m, "blocked", "")
    ELSE LET instance == NewInstance(c2, m, providerSpec, env) IN
         GoesOn([c2 EXCEPT !.inst = @ \cup {instance}, !.next = @ + 1], m,
                "created", instance)

\* Create from line 343 on, lines 312-341 having come out as `created`
CreateAfterInstance(created, providerSpec, clusterInfraName, env) ==
    IF created.res # "created" THEN created
    ELSE CreateRecord(created.c, created.m, providerSpec, created.local,
                      clusterInfraName, env)

\* lines 312-366 of Create
CreateInstance(c, m, providerSpec, clusterInfraName, env) ==
    CreateAfterInstance(CreateUserDataAndInstance(c, m, providerSpec, env),
                        providerSpec, clusterInfraName, env)

\* a by-name lookup whose result is taken as "no such instance"
InstanceNeverFound(instanceStatus) == FALSE

\* the "already exists" test of line 296
InstanceFound(instanceStatus) == instanceStatus # Nil

\* the "destroyed instance" test of line 306
InstanceStatusRecorded(m) == m.annotations.instanceStatus # Nil

\* lines 292-311 of Create: the idempotency check and the resurrection check;
\* "absent" when Create goes on to create the instance
CreateIfAbsent(c, m, env) ==
    LET c1 == Call(c, "GetInstanceStatusByName") IN
    IF Fails(env, <<"Create", "GetInstanceStatusByName">>)
    THEN Ret(Fail(c1, env), m, "error", PlainError)
    ELSE IF InstanceFound(GetInstanceStatusByName(c1.inst, m.name))
    THEN Ret(c1, m, "ok", "")
    ELSE IF InstanceStatusRecorded(m)
    THEN handleMachineError(c1, m, InvalidConfiguration,
                            "the instance has been destroyed", createEventAction, env)
    ELSE Ret(c1, m, "absent", "")

\* lines 243-311 of Create: what Create does before it creates the instance
CreateChecks(c, m, env) ==
    LET c1 == Call(Call(c, "Create"), "Infrastructures.Get")
        clusterInfraName == InfrastructureName
        invalid(cc, message) ==
            handleMachineError(cc, m, InvalidConfiguration, message, createEventAction, env)
    IN
    IF Fails(env, <<"Create", "Infrastructures.Get">>) THEN Ret(Fail(c1, env), m, "error", PlainError)
    ELSE IF ~ClusterLabelMatches(m, clusterInfraName)
    THEN invalid(c1, "cluster-api-cluster label value is incorrect")
    ELSE LET c2 == Call(c1, "getProviderClient") IN
    IF Fails(env, <<"Create", "getProviderClient">>) THEN Ret(Fail(c2, env), m, "error", PlainError)
    ELSE IF Fails(env, <<"Create", "compute.NewService">>) THEN Ret(Fail(c2, env), m, "error", PlainError)
    ELSE IF Fails(env, <<"Create", "networking.NewService">>) THEN Ret(Fail(c2, env), m, "error", PlainError)
    ELSE LET providerSpec == MachineSpecFromProviderSpec(m.spec.providerSpec) IN
    IF providerSpec = Nil THEN invalid(c2, "Cannot unmarshal providerSpec field")
    ELSE IF ~validateMachine(m, env, "Create")
    THEN invalid(FailIf(Call(c2, "validateMachine"), env, <<"Create", "validateMachine">>),
                 "Machine validation failed")
    ELSE CreateIfAbsent(Call(c2, "validateMachine"), m, env)

\* Create from line 312 on, the checks having come out as `checked`: a return
\* of the checks is the return of Create, otherwise the instance is created
CreateAfterChecks(checked, m, env) ==
    IF checked.res # "absent" THEN checked
    ELSE CreateInstance(checked.c, m,
                        Deref(MachineSpecFromProviderSpec(m.spec.providerSpec)),
                        InfrastructureName, env)

\* Create(ctx, machine): the checks, then lines 312-366
Create(c, m, env) == CreateAfterChecks(CreateChecks(c, m, env), m, env)

----------------------------------------------------------------------------
(* Update *)

\* a comparison that takes every machine as changed
alwaysRequiresUpdate(a, b) == TRUE

\* a comparison of the whole records, status included
requiresUpdateWholeRecord(a, b) == a # b

\* requiresUpdate(a, b) on two machine pointers
requiresUpdate(a, b) ==
    IF a = Nil \/ b = Nil THEN TRUE
    ELSE \/ Deref(a).spec.meta # Deref(b).spec.meta
         \/ Deref(a).spec.providerSpec # Deref(b).spec.providerSpec
         \/ Deref(a).name # Deref(b).name

\* a role test that takes every machine as a compute node
NeverControlPlane(currentMachine) == FALSE

\* the control-plane test of line 456 on the observed machine
IsControlPlane(currentMachine) == currentMachine.labels.master

\* instanceStatus(machine): the observed machine decoded from the persisted
\* record's instance-status annotation, nil when there is none or when the
\* engine has no client to fetch the record with
instanceStatus(c, m) ==
    IF c.client THEN DecodeInstanceStatus(c.st.annotations.instanceStatus) ELSE Nil

\* machineService.SetMachineLabels(machine, instanceID): the labels taken from
\* the live instance
SetMachineLabels(m, instance) ==
    [m EXCEPT !.labels.region = RegionName,
              !.labels.zone = Zone,
              !.labels.instanceType = instance.flavor]

\* lines 427-450 of Update: no observed machine, populate it from a live instance
UpdateBootstrap(c, m, clusterInfraName, env) ==
    LET site == <<"Update", "instanceExists">>
        c0 == FailIf(Call(c, "instanceExists"), env, site)
        found == instanceExists(c0, m, env, site)
        c1 == CloudFinishes(c0, env, site)
    IN
    IF found.res = "error" THEN Ret(c1, m, "error", PlainError)
    ELSE IF found.instance # Nil /\ Deref(found.instance).status = "ACTIVE"
    THEN IF Fails(env, <<"Update", "NewInstanceServiceFromMachine">>)
         THEN Ret(Fail(c1, env), m, "error", PlainError)
         ELSE IF Fails(env, <<"Update", "SetMachineLabels">>)
         THEN Ret(Fail(Call(c1, "SetMachineLabels"), env), m, "ok", "")
         ELSE updateAnnotation(Call(c1, "SetMachineLabels"),
                               SetMachineLabels(m, Deref(found.instance)),
                               Deref(found.instance).id, clusterInfraName, env)
    ELSE Ret(c1, m, "error", PlainError)

\* a replacement that deletes the observed instance before it creates the new one
UpdateReplaceDeleteFirst(c, m, currentMachine, env) ==
    LET deleted == Delete(c, currentMachine, env) IN
    IF deleted.res = "error" THEN Ret(deleted.c, m, "error", PlainError)
    ELSE LET created == Create(deleted.c, m, env) IN
    IF created.res \in {"panic", "blocked"} THEN created
    ELSE IF created.res = "error" THEN Ret(created.c, created.m, "error", PlainError)
    ELSE Ret(Call(created.c, "PollImmediate"), created.m, "poll", "")

\* lines 463-475 of Update: Create the new instance, Delete the observed one;
\* "poll" hands over to PollImmediate
UpdateReplace(c, m, currentMachine, env) ==
    LET created == Create(c, m, env) IN
    IF created.res \in {"panic", "blocked"} THEN created
    ELSE IF created.res = "error" THEN Ret(created.c, created.m, "error", PlainError)
    ELSE LET deleted == Delete(CloudFinishes(created.c, env, <<"Update", "Create">>),
                               currentMachine, env) IN
    IF deleted.res = "error" THEN Ret(deleted.c, created.m, "error", PlainError)
    ELSE Ret(Call(deleted.c, "PollImmediate"), created.m, "poll", "")

\* Update(ctx, machine) up to the delete-confirmation poll
Update(c, m, env) ==
    LET c0 == Call(Call(c, "Update"), "validateMachine") IN
    IF ~validateMachine(m, env, "Update")
    THEN handleMachineError(FailIf(c0, env, <<"Update", "validateMachine">>), m, UpdateError,
                            "validation failed", updateEventAction, env)
    ELSE LET c1 == Call(c0, "Infrastructures.Get") IN
    IF Fails(env, <<"Update", "Infrastructures.Get">>) THEN Ret(Fail(c1, env), m, "error", PlainError)
    ELSE LET c2 == Call(c1, "instanceStatus") IN
    IF Fails(env, <<"Update", "instanceStatus">>) THEN Ret(Fail(c2, env), m, "error", PlainError)
    ELSE LET currentMachine == instanceStatus(c2, m) IN
    IF currentMachine = Nil THEN UpdateBootstrap(c2, m, InfrastructureName, env)
    ELSE IF ~requiresUpdate(currentMachine, Ptr(m)) THEN Ret(c2, m, "ok", "")
    ELSE IF IsControlPlane(Deref(currentMachine))
    THEN handleMachineError(c2, m, UpdateError, "master inplace update failed: not supported",
                            updateEventAction, env)
    ELSE UpdateReplace(c2, m, Deref(currentMachine), env)

----------------------------------------------------------------------------
(* Exists *)

ExistsSite == <<"Exists", "instanceExists">>

\* an existence check that takes a failed lookup as "no instance"
ExistsSwallowingError(c, m, env) ==
    LET c1 == FailIf(Call(Call(c, "Exists"), "instanceExists"), env, ExistsSite)
        found == instanceExists(c1, m, env, ExistsSite)
    IN Ret(c1, m, IF found.instance # Nil THEN "true" ELSE "false", "")

\* Exists(ctx, machine): the result is "true" or "false", or an error
Exists(c, m, env) ==
    LET c1 == FailIf(Call(Call(c, "Exists"), "instanceExists"), env, ExistsSite)
        found == instanceExists(c1, m, env, ExistsSite)
    IN IF found.res = "error" THEN Ret(c1, m, "error", PlainError)
       ELSE Ret(c1, m, IF found.instance # Nil THEN "true" ELSE "false", "")

----------------------------------------------------------------------------
(* Environments: which call site fails, and what the cloud decides *)

RecorderSites ==
    { <<"updateAnnotation", "instanceExists">>,
      <<"getPrimaryMachineIP", "getProviderClient">>,
      <<"getPrimaryMachineIP", "NewNetworkV2">>,
      <<"getPrimaryMachineIP", "getNetworkBySubnet">>,
      <<"getPrimaryMachineIP", "getNetworkByPrimaryNetworkTag">>,
      <<"updateAnnotation", "client.Update">>,
      <<"updateAnnotation", "client.Status.Update">>,
      <<"updateAnnotation", "updateInstanceStatus">> }

CreateSites ==
    { <<"Create", "Infrastructures.Get">>, <<"Create", "getProviderClient">>,
      <<"Create", "compute.NewService">>, <<"Create", "networking.NewService">>,
      <<"Create", "validateMachine">>, <<"Create", "GetInstanceStatusByName">>,
      <<"getUserData", "Secrets.Get">>, <<"getUserData", "startupScript">>,
      <<"Create", "NewOpenStackMachine">>, <<"Create", "CreateInstance">>,
      <<"Create", "GetOrCreateFloatingIP">>, <<"Create", "GetManagementPort">>,
      <<"Create", "AssociateFloatingIP">> } \cup RecorderSites

DeleteSites ==
    { <<"Delete", "getProviderClient">>, <<"Delete", "compute.NewService">>,
      <<"Delete", "GetInstanceStatusByName">>, <<"Delete", "DeleteInstance">> }

UpdateSites ==
    { <<"Update", "validateMachine">>, <<"Update", "Infrastructures.Get">>,
      <<"Update", "instanceStatus">>, <<"Update", "instanceExists">>,
      <<"Update", "NewInstanceServiceFromMachine">>, <<"Update", "SetMachineLabels">> }
    \cup CreateSites \cup DeleteSites

PollSite == <<"PollImmediate", "instanceExists">>

AnyInstanceChoice == CHOOSE ni \in NewInstanceChoices : TRUE

Env(f, u, ni, imm) == [f |-> f, u |-> u, ni |-> ni, imm |-> imm, fin |-> NoCall]

\* the sites whose failure goes through handleMachineError, whose own
\* client.Update may fail as well (env.u)
HandledSites ==
    { <<"Create", "validateMachine">>, <<"getUserData", "startupScript">>,
      <<"Create", "CreateInstance">>, <<"Create", "GetOrCreateFloatingIP">>,
      <<"Create", "GetManagementPort">>, <<"Create", "AssociateFloatingIP">>,
      <<"Delete", "GetInstanceStatusByName">>, <<"Delete", "DeleteInstance">>,
      <<"Update", "validateMachine">> }

\* the sites of Create that come after the instance was created
AfterCreateInstance ==
    { <<"Create", "GetOrCreateFloatingIP">>, <<"Create", "GetManagementPort">>,
      <<"Create", "AssociateFloatingIP">> } \cup RecorderSites

\* the environments with a failing site of `sites`; a choice that cannot matter
\* (the funnel's update when the funnel is not entered, the new instance when
\* none is created) is fixed
FaultEnvs(sites, imms) ==
    { Env(x.f, x.u, x.ni, x.imm) :
        x \in { y \in [f : sites, u : BOOLEAN, ni : NewInstanceChoices, imm : imms] :
                  /\ y.u => y.f \in HandledSites
                  /\ y.ni # AnyInstanceChoice => y.f \in AfterCreateInstance } }

\* the environments in which no site fails
CleanEnvs(imms) ==
    { Env(NoFault, u, ni, imm) : u \in BOOLEAN, ni \in NewInstanceChoices, imm \in imms }

\* the environments in which the cloud finishes the deletions it has started
\* after the call `lookup` has returned, and in which one of the calls `later`,
\* which the operation makes after it, fails or none does. DeleteInstance
\* fails by itself on an instance that is gone, so that the funnel's update
\* can fail after the lookup of Delete whatever fails
FinishingEnvs(lookup, later) ==
    UNION { { [Env(f, u, AnyInstanceChoice, TRUE) EXCEPT !.fin = lookup] :
                u \in { b \in BOOLEAN :
                          b => \/ f \in HandledSites
                               \/ lookup = <<"Delete", "GetInstanceStatusByName">> } } :
            f \in later \cup {NoFault} }

\* the calls Update makes after updateAnnotation's lookup of the instance
AfterRefetch == RecorderSites \ {<<"updateAnnotation", "instanceExists">>}

CreateEnvs == FaultEnvs(CreateSites, {TRUE}) \cup CleanEnvs({TRUE})
\* the cloud can finish between the lookup of Delete and its DeleteInstance
DeleteEnvs ==
    FaultEnvs(DeleteSites, BOOLEAN)
    \cup { Env(NoFault, FALSE, AnyInstanceChoice, imm) : imm \in BOOLEAN }
    \cup FinishingEnvs(<<"Delete", "GetInstanceStatusByName">>,
                       {<<"Delete", "DeleteInstance">>})
\* the cloud can finish after each lookup of Update: after its Create has
\* returned (line 465, lookup at 292), after the lookup of its Delete (381),
\* after the lookup of the bootstrap case (428) and after the lookup of
\* updateAnnotation (666); any call Update makes from there on can fail
UpdateEnvs ==
    FaultEnvs(UpdateSites \ DeleteSites, {TRUE}) \cup FaultEnvs(DeleteSites, BOOLEAN)
    \cup CleanEnvs(BOOLEAN)
    \cup FinishingEnvs(<<"Update", "Create">>, DeleteSites)
    \cup FinishingEnvs(<<"Delete", "GetInstanceStatusByName">>,
                       {<<"Delete", "DeleteInstance">>})
    \cup FinishingEnvs(<<"Update", "instanceExists">>,
                       { <<"Update", "NewInstanceServiceFromMachine">>,
                         <<"Update", "SetMachineLabels">> } \cup RecorderSites)
    \cup FinishingEnvs(<<"updateAnnotation", "instanceExists">>, AfterRefetch)

----------------------------------------------------------------------------
(* The state machine *)

\* the machines of the model: a worker with a floating IP and a primary
\* subnet, a control-plane machine with neither (a legacy record)
MachineConfigs ==
    { [master |-> FALSE, floatingIP |-> "fip", primarySubnet |-> "sub-b"],
      [master |-> TRUE, floatingIP |-> "", primarySubnet |-> ""] }

\* the specs the user gives the machine: the first one, a changed flavor,
\* changed spec metadata, an unparsable provider spec
SpecEdits ==
    { [meta |-> "meta1", flavor |-> "f1", valid |-> TRUE],
      [meta |-> "meta1", flavor |-> "f2", valid |-> TRUE],
      [meta |-> "meta2", flavor |-> "f1", valid |-> TRUE],
      [meta |-> "meta1", flavor |-> "f1", valid |-> FALSE] }

InitialMachines ==
    { NewMachine(cluster, mc.master, "meta1",
                 ProviderSpec(TRUE, "f1", mc.floatingIP, mc.primarySubnet)) :
        cluster \in ClusterLabels, mc \in MachineConfigs }

Init ==
    /\ stored \in InitialMachines
    /\ machine = stored
    /\ instances = {}
    /\ nextId = 1
    /\ client \in BOOLEAN
    /\ pc = "idle"
    /\ polls = 0
    /\ op = "" /\ result = "" /\ err = "" /\ failed = NoFault
    /\ calls = {} /\ events = {}
    /\ afterCreate = FALSE
    /\ cancelled = FALSE
    /\ input = Nil /\ output = Nil
    /\ creates = Nil
    /\ window = Nil

\* the operation that returned was a Create that returned ok
CreateReturnedOk == op = "Create" /\ result = "ok"

\* the operation `name` came out as r
Finish(name, r) ==
    /\ r.res # "blocked"
    /\ stored' = r.c.st
    /\ machine' = r.m
    /\ instances' = r.c.inst
    /\ nextId' = r.c.next
    /\ pc' = IF r.res = "poll" THEN "poll" ELSE "returned"
    /\ polls' = 0
    /\ op' = name
    /\ result' = IF r.res = "poll" THEN "running" ELSE r.res
    /\ err' = r.err
    /\ failed' = r.c.failed
    /\ calls' = r.c.calls
    /\ events' = r.c.ev
    /\ UNCHANGED <<client, afterCreate, cancelled, input, output, creates>>

\* the control loop calls Create with the persisted machine
DoCreate ==
    /\ pc = "idle"
    /\ \E env \in CreateEnvs :
          Finish("Create", Create(Ctx(stored, instances, nextId, client), stored, env))
    /\ UNCHANGED window

\* the control loop calls Delete with the persisted machine
DoDelete ==
    /\ pc = "idle"
    /\ \E env \in DeleteEnvs :
          Finish("Delete", Delete(Ctx(stored, instances, nextId, client), stored, env))
    /\ UNCHANGED window

TimeoutInstanceCreate == 5
TimeoutInstanceDelete == 5

\* time.Minute, with the second as the unit of time.Duration
Minute == 60

DigitChars == {"0", "1", "2", "3", "4", "5", "6", "7", "8", "9"}

DigitValue(ch) ==
    CASE ch = "0" -> 0 [] ch = "1" -> 1 [] ch = "2" -> 2 [] ch = "3" -> 3
      [] ch = "4" -> 4 [] ch = "5" -> 5 [] ch = "6" -> 6 [] ch = "7" -> 7
      [] ch = "8" -> 8 [] ch = "9" -> 9

RECURSIVE ParseDigits(_, _)
ParseDigits(s, acc) ==
    IF s = <<>> THEN acc
    ELSE ParseDigits(Tail(s), acc * 10 + DigitValue(Head(s)))

\* strconv.Atoi: an optional sign, then one or more decimal digits; anything
\* else is a syntax error
Atoi(s) ==
    LET signed == s # <<>> /\ Head(s) \in {"-", "+"}
        digits == IF signed THEN Tail(s) ELSE s
    IN  IF digits = <<>> \/ \E i \in DOMAIN digits : digits[i] \notin DigitChars
        THEN [n |-> 0, err |-> "invalid syntax"]
        ELSE [n |-> IF signed /\ Head(s) = "-" THEN 0 - ParseDigits(digits, 0)
                    ELSE ParseDigits(digits, 0),
              err |-> ""]

\* getTimeout: v is the value os.Getenv gives for the variable
getTimeout(v, timeout) ==
    IF v # <<>> /\ Atoi(v).err = ""
    THEN Atoi(v).n
    ELSE timeout

\* the timeout Update gives to PollImmediate
instanceDeleteTimeout(v) == getTimeout(v, TimeoutInstanceDelete) * Minute

\* the values CLUSTER_API_OPENSTACK_INSTANCE_DELETE_TIMEOUT has in the
\* environment of the actuator: not set, "0", "-3"
TimeoutSettings == { <<>>, <<"0">>, <<"-", "3">> }

\* the control loop calls Update with the persisted machine; an Update that
\* comes to the poll gives it the timeout it reads from the environment. The
\* remote calls of Update are taken in their order within the one step; what
\* the cloud does between them is the input env.fin, and which of them fails is
\* the input env.f, in every combination of a lookup and a call that follows
\* it (UpdateEnvs). The cloud finishing before the first lookup of Update is
\* CloudFinishDelete before this step, and while Update polls it is
\* CloudFinishDelete between the checks
DoUpdate ==
    /\ pc = "idle"
    /\ \E env \in UpdateEnvs :
          LET r == Update(Ctx(stored, instances, nextId, client), stored, env)
          IN /\ Finish("Update", r)
             /\ IF r.res = "poll"
                THEN \E v \in TimeoutSettings :
                        window' = Ptr(instanceDeleteTimeout(v))
                ELSE window' = Nil

\* the control loop calls Exists with the persisted machine
DoExists ==
    /\ pc = "idle"
    /\ \E f \in {NoFault, ExistsSite} :
          Finish("Exists", Exists(Ctx(stored, instances, nextId, client), stored,
                                  Env(f, FALSE, AnyInstanceChoice, TRUE)))
    /\ UNCHANGED window

\* the condition checks util.PollImmediate makes before it gives up: it checks
\* once before it waits at all; a window that has not ended leaves room for
\* MaxPolls checks
PollChecks(w) == IF w > 0 THEN MaxPolls ELSE 1

\* util.PollImmediate gives up: it has a timeout (a window of 0 is none) and
\* the checks of the window are made
PollTimedOut(w, checks) == w # 0 /\ checks >= PollChecks(w)

\* one condition check of PollImmediate (lines 478-484); with no timeout the
\* checks are not counted
PollCheck ==
    /\ pc = "poll"
    /\ ~PollTimedOut(Deref(window), polls)
    /\ \E f \in {NoFault, PollSite} :
          LET env == Env(f, FALSE, AnyInstanceChoice, TRUE)
              found == instanceExists(Ctx(stored, instances, nextId, client),
                                      machine, env, PollSite)
          IN /\ calls' = calls \cup {"instanceExists"}
             /\ IF found.res = "ok" /\ found.instance = Nil
                THEN /\ pc' = "returned"
                     /\ polls' = 0
                     /\ window' = Nil
                     /\ result' = "ok"
                     /\ events' = events \cup {<<"Normal", "Updated">>}
                ELSE /\ polls' = IF Deref(window) = 0 THEN (polls + 1) % MaxPolls
                                 ELSE polls + 1
                     /\ UNCHANGED <<pc, result, events, window>>
    /\ UNCHANGED <<stored, machine, instances, nextId, client, op, err, failed,
                   afterCreate, cancelled, input, output, creates>>

\* PollImmediate timed out (lines 485-488)
PollTimeout ==
    /\ pc = "poll"
    /\ PollTimedOut(Deref(window), polls)
    /\ \E u \in BOOLEAN :
          LET env == Env(NoFault, u, AnyInstanceChoice, TRUE)
              c == [Ctx(stored, instances, nextId, client) EXCEPT !.calls = calls,
                                                                  !.ev = events,
                                                                  !.failed = failed]
              r == handleMachineError(c, machine, DeleteError,
                                      "error deleting Openstack instance",
                                      updateEventAction, env)
          IN /\ stored' = r.c.st
             /\ machine' = r.m
             /\ result' = r.res
             /\ err' = r.err
             /\ failed' = r.c.failed
             /\ calls' = r.c.calls
             /\ events' = r.c.ev
    /\ pc' = "returned"
    /\ polls' = 0
    /\ window' = Nil
    /\ UNCHANGED <<instances, nextId, client, op, afterCreate, cancelled, input, output,
                   creates>>

\* the user edits the machine's spec
EditSpec ==
    /\ pc = "idle"
    /\ \E e \in SpecEdits :
          LET spec == [meta |-> e.meta,
                       providerSpec |-> [stored.spec.providerSpec EXCEPT
                                            !.flavor = e.flavor, !.valid = e.valid]]
          IN /\ spec # stored.spec
             /\ stored' = [stored EXCEPT !.spec = spec]
    /\ machine' = stored'
    /\ afterCreate' = FALSE
    /\ UNCHANGED <<instances, nextId, client, pc, polls, op, result, err, failed,
                   calls, events, cancelled, input, output, creates, window>>

\* the cloud finishes deleting an instance, between two operations or while
\* Update polls
CloudFinishDelete ==
    /\ pc \in {"idle", "poll"}
    /\ \E i \in instances : i.deleting /\ instances' = instances \ {i}
    /\ afterCreate' = FALSE
    /\ UNCHANGED <<stored, machine, nextId, client, pc, polls, op, result, err,
                   failed, calls, events, cancelled, input, output, creates, window>>

\* the caller cancels the ctx it passed to Update (line 407) while Update
\* waits in PollImmediate
CancelContext ==
    /\ pc = "poll"
    /\ ~cancelled
    /\ cancelled' = TRUE
    /\ UNCHANGED <<stored, machine, instances, nextId, client, pc, polls, op, result,
                   err, failed, calls, events, afterCreate, input, output, creates, window>>

\* the operation has returned: the control loop requeues the machine and will
\* read the persisted record again
Requeue ==
    /\ pc = "returned"
    /\ pc' = "idle"
    /\ machine' = stored
    /\ afterCreate' = (CreateReturnedOk \/ (op = "Exists" /\ afterCreate))
    /\ op' = "" /\ result' = "" /\ err' = "" /\ failed' = NoFault
    /\ calls' = {} /\ events' = {}
    /\ cancelled' = FALSE
    /\ UNCHANGED <<stored, instances, nextId, client, polls, input, output, creates, window>>

Next ==
    \/ DoCreate
    \/ DoDelete
    \/ DoUpdate
    \/ DoExists
    \/ PollCheck
    \/ PollTimeout
    \/ EditSpec
    \/ CloudFinishDelete
    \/ CancelContext
    \/ Requeue

Spec == Init /\ [][Next]_vars

\* PollImmediate runs its condition on every tick of its interval and ends on
\* its timeout: a poll step that stays possible is taken
LiveSpec == Spec /\ WF_vars(PollCheck) /\ WF_vars(PollTimeout)

----------------------------------------------------------------------------
(* The functions of the actuator, applied to arguments of their own *)

PrimaryTag == "-primaryClusterNetwork"

\* the network sets the resolver is applied to: one tagged network, two
\* tagged networks, none
NetworkSets ==
    { Networks,
      { [name |-> "net-a", subnets |-> {"sub-a"}, tags |-> {<<"c1", PrimaryTag>>}],
        [name |-> "net-b", subnets |-> {"sub-b"}, tags |-> {<<"c1", PrimaryTag>>}] },
      { [name |-> "net-a", subnets |-> {"sub-a"}, tags |-> {}],
        [name |-> "net-b", subnets |-> {"sub-b"}, tags |-> {}] } }

\* the address maps getIPsFromInstance can give, and the empty one
AddressMaps ==
    { [n \in {} |-> ""],
      [n \in {""} |-> "172.16.0.7"],
      [n \in {"net-a"} |-> "10.0.0.5"],
      [n \in {"net-b"} |-> "192.168.0.9"],
      [n \in {"net-a", "net-b"} |-> IF n = "net-a" THEN "10.0.0.5" ELSE "192.168.0.9"],
      [n \in {"net-a"} |-> ""],
      [n \in {"net-a", "net-b"} |-> IF n = "net-a" THEN "" ELSE "192.168.0.9"] }

\* the texts the AccessIPv4 of an instance can hold: none, an IPv4 address, an
\* IPv6 address, no address
AccessIPs == {"", "172.16.0.7", "fe80::1", "not-an-ip"}

\* the interface lists getIPsFromInstance is applied to: those of the
\* instances of the model, an IPv4 interface with no address, IPv6 only
InterfaceProfiles ==
    AddressProfiles
    \cup { [n \in {"net-a"} |-> << [addr |-> "", version |-> 4] >>],
           [n \in {"net-a", "net-b"} |->
               IF n = "net-a" THEN << [addr |-> "", version |-> 4] >>
                              ELSE << [addr |-> "192.168.0.9", version |-> 4] >>],
           [n \in {"net-a"} |-> << [addr |-> "fe80::1", version |-> 6] >>],
           [n \in {"net-a"} |-> << [addr |-> "10.0.0.5", version |-> 4],
                                   [addr |-> "172.16.0.7", version |-> 4] >>] }

\* the primary subnets a provider spec can name: none, known ones, an unknown one
PrimarySubnets == {"", "sub-a", "sub-b", "sub-x"}

ResolverSites ==
    { <<"getPrimaryMachineIP", "getProviderClient">>,
      <<"getPrimaryMachineIP", "NewNetworkV2">>,
      <<"getPrimaryMachineIP", "getNetworkBySubnet">>,
      <<"getPrimaryMachineIP", "getNetworkByPrimaryNetworkTag">> }

\* the machine records requiresUpdate is applied to: they differ in name, spec
\* metadata, flavor, and in status
ComparedMachines ==
    { [NewMachine(InfrastructureName, FALSE, meta, ProviderSpec(TRUE, flavor, "", ""))
          EXCEPT !.name = name,
                 !.status.errorReason = reason,
                 !.status.errorMessage = IF reason = "" THEN <<>>
                                         ELSE ErrorMessage(reason, ""),
                 !.status.addresses = addresses] :
        name \in {MachineName, "m2"}, meta \in SpecMetas, flavor \in Flavors,
        reason \in {"", CreateError},
        addresses \in {<<>>, NodeAddresses("10.0.0.5", MachineName)} }

\* the longest value of the environment variable getTimeout is applied to
MaxEnvLen == 2

\* the characters of a value of the environment variable: digits, signs, and
\* one that is neither
EnvChars == {"0", "3", "7", "-", "+", "x"}

\* os.Getenv gives "" for a variable that is not set
EnvValues ==
    UNION { [1..n -> EnvChars] : n \in 0..MaxEnvLen }


FunctionInit ==
    /\ stored = NewMachine(InfrastructureName, FALSE, "meta1", ProviderSpec(TRUE, "f1", "", ""))
    /\ machine = stored
    /\ instances = {}
    /\ nextId = 1
    /\ client = TRUE
    /\ pc = "function"
    /\ polls = 0
    /\ op = "" /\ result = "" /\ err = "" /\ failed = NoFault
    /\ calls = {} /\ events = {}
    /\ afterCreate = FALSE
    /\ cancelled = FALSE
    /\ input = Nil /\ output = Nil
    /\ creates = Nil
    /\ window = Nil

\* getPrimaryMachineIP is applied to an address map, a machine and a cluster name
ApplyGetPrimaryMachineIP ==
    /\ pc = "function" /\ input = Nil
    /\ \E networks \in NetworkSets, mapAddr \in AddressMaps,
          primarySubnet \in PrimarySubnets, valid \in BOOLEAN,
          clusterInfraName \in ClusterLabels, f \in ResolverSites \cup {NoFault} :
          LET m == NewMachine(clusterInfraName, FALSE, "meta1",
                              ProviderSpec(valid, "f1", "", primarySubnet))
              r == getPrimaryMachineIP(Ctx(m, {}, 1, TRUE), networks, mapAddr, m,
                                       clusterInfraName,
                                       Env(f, FALSE, AnyInstanceChoice, TRUE))
          IN /\ input' = Ptr([fn |-> "getPrimaryMachineIP", networks |-> networks,
                               mapAddr |-> mapAddr, machine |-> m,
                               clusterInfraName |-> clusterInfraName, f |-> f])
             /\ output' = Ptr([res |-> r.res, ip |-> r.ip, calls |-> r.c.calls,
                                failed |-> r.c.failed])
    /\ UNCHANGED <<stored, machine, instances, nextId, client, pc, polls, op, result,
                   err, failed, calls, events, afterCreate, cancelled, creates, window>>

\* requiresUpdate is applied to two machine pointers
ApplyRequiresUpdate ==
    /\ pc = "function" /\ input = Nil
    /\ \E a \in {Nil} \cup {Ptr(x) : x \in ComparedMachines},
          b \in {Nil} \cup {Ptr(x) : x \in ComparedMachines} :
          /\ input' = Ptr([fn |-> "requiresUpdate", a |-> a, b |-> b])
          /\ output' = Ptr([res |-> requiresUpdate(a, b)])
    /\ UNCHANGED <<stored, machine, instances, nextId, client, pc, polls, op, result,
                   err, failed, calls, events, afterCreate, cancelled, creates, window>>

\* getTimeout is applied to a value of
\* CLUSTER_API_OPENSTACK_INSTANCE_DELETE_TIMEOUT, as Update applies it
ApplyGetTimeout ==
    /\ pc = "function" /\ input = Nil
    /\ \E v \in EnvValues :
          /\ input' = Ptr([fn |-> "getTimeout", v |-> v,
                           timeout |-> TimeoutInstanceDelete])
          /\ output' = Ptr([res |-> getTimeout(v, TimeoutInstanceDelete),
                            instanceDeleteTimeout |-> instanceDeleteTimeout(v)])
    /\ UNCHANGED <<stored, machine, instances, nextId, client, pc, polls, op, result,
                   err, failed, calls, events, afterCreate, cancelled, creates, window>>

\* getIPsFromInstance is applied to an instance, or to nil
ApplyGetIPsFromInstance ==
    /\ pc = "function" /\ input = Nil
    /\ \E instance \in {Nil} \cup
              { Ptr([n |-> 1, id |-> InstanceIds[1], name |-> MachineName,
                     image |-> Image, flavor |-> "f1", status |-> "ACTIVE",
                     addresses |-> addresses, accessIPv4 |-> accessIPv4,
                     deleting |-> FALSE]) :
                  addresses \in InterfaceProfiles, accessIPv4 \in AccessIPs } :
          /\ input' = Ptr([fn |-> "getIPsFromInstance", instance |-> instance])
          /\ output' = Ptr(getIPsFromInstance(instance))
    /\ UNCHANGED <<stored, machine, instances, nextId, client, pc, polls, op, result,
                   err, failed, calls, events, afterCreate, cancelled, creates, window>>

FunctionNext ==
    \/ ApplyGetIPsFromInstance
    \/ ApplyGetPrimaryMachineIP
    \/ ApplyRequiresUpdate
    \/ ApplyGetTimeout

FunctionSpec == FunctionInit /\ [][FunctionNext]_vars

----------------------------------------------------------------------------
(* Two control-loop processes that call Create for the same machine *)

Procs == {"p1", "p2"}

\* where a Create that has not returned is: before the cloud call or the write
\* of the machine record it makes next
CreateStages == {"absent", "created", "annotate", "update", "status", "instanceStatus"}

\* the call sites of each step of Create
CheckSites ==
    { <<"Create", "Infrastructures.Get">>, <<"Create", "getProviderClient">>,
      <<"Create", "compute.NewService">>, <<"Create", "networking.NewService">>,
      <<"Create", "validateMachine">>, <<"Create", "GetInstanceStatusByName">> }
InstanceSites ==
    { <<"getUserData", "Secrets.Get">>, <<"getUserData", "startupScript">>,
      <<"Create", "NewOpenStackMachine">>, <<"Create", "CreateInstance">> }
FloatingIPSites ==
    { <<"Create", "GetOrCreateFloatingIP">>, <<"Create", "GetManagementPort">>,
      <<"Create", "AssociateFloatingIP">> }
LookupSites ==
    { <<"updateAnnotation", "instanceExists">>,
      <<"getPrimaryMachineIP", "getProviderClient">>,
      <<"getPrimaryMachineIP", "NewNetworkV2">>,
      <<"getPrimaryMachineIP", "getNetworkBySubnet">>,
      <<"getPrimaryMachineIP", "getNetworkByPrimaryNetworkTag">> }

\* the environments of one step: one of its sites fails or none does; the
\* funnel's update can fail when the funnel is entered; the cloud decides about
\* an instance it creates
StepEnvs(sites, choices) ==
    { Env(x.f, x.u, x.ni, TRUE) :
        x \in { y \in [f : sites \cup {NoFault}, u : BOOLEAN, ni : choices] :
                  /\ y.u => y.f \in HandledSites
                  /\ y.ni # AnyInstanceChoice => y.f = NoFault } }

\* a process that is not in Create
NotInCreate ==
    [pc |-> "idle", machine |-> Nil, stale |-> FALSE, local |-> Nil, result |-> "",
     err |-> "", failed |-> NoFault, calls |-> {}, events |-> {}]

\* a process whose Create came out of a step as r; `stale` tells that the
\* machine object it holds carries an older resourceVersion than the record
InCreate(r, stale) ==
    [pc |-> IF r.res \in CreateStages THEN r.res ELSE "returned",
     machine |-> Ptr(r.m),
     stale |-> r.res \in CreateStages /\ stale,
     local |-> IF r.res \in CreateStages /\ r.res # "absent" THEN Ptr(r.local) ELSE Nil,
     result |-> IF r.res \in CreateStages THEN "running" ELSE r.res,
     err |-> r.err, failed |-> r.c.failed, calls |-> r.c.calls, events |-> r.c.ev]

\* the machine record has been written since process p read it or wrote it
\* last: the resourceVersion p holds is no longer the record's
Stale(p) == creates[p].stale

\* the processes after a step of process p that came out as r: a write of the
\* record in the step makes the object of every other process in Create stale
AfterStep(p, r, stale) ==
    [q \in Procs |->
        IF q = p THEN InCreate(r, stale)
        ELSE IF r.c.writes > 0 /\ creates[q].pc \in CreateStages
        THEN [creates[q] EXCEPT !.stale = TRUE]
        ELSE creates[q]]

\* the state the Create of process p goes on from, and its in-memory machine
CreateCtx(p) ==
    [Ctx(stored, instances, nextId, client) EXCEPT
        !.calls = creates[p].calls, !.ev = creates[p].events,
        !.failed = creates[p].failed]
CreateMachine(p) == [Deref(creates[p].machine) EXCEPT !.fresh = ~Stale(p)]
CreateProviderSpec(p) ==
    Deref(MachineSpecFromProviderSpec(Deref(creates[p].machine).spec.providerSpec))

\* a step of the Create of process p came out as r. The API server refuses the
\* write of an object that carries an old resourceVersion, so the object of a
\* step that wrote carries the record's
Step(p, r) ==
    /\ r.res # "blocked"
    /\ stored' = r.c.st
    /\ instances' = r.c.inst
    /\ nextId' = r.c.next
    /\ creates' = AfterStep(p, r, Stale(p) /\ r.c.writes = 0)
    /\ UNCHANGED <<machine, client, pc, polls, op, result, err, failed, calls, events,
                   afterCreate, cancelled, input, output, window>>

ConcurrentInit ==
    /\ stored \in InitialMachines
    /\ machine = stored
    /\ instances = {}
    /\ nextId = 1
    /\ client = TRUE
    /\ pc = "concurrent"
    /\ polls = 0
    /\ op = "Create" /\ result = "" /\ err = "" /\ failed = NoFault
    /\ calls = {} /\ events = {}
    /\ afterCreate = FALSE
    /\ cancelled = FALSE
    /\ input = Nil /\ output = Nil
    /\ creates = [p \in Procs |-> NotInCreate]
    /\ window = Nil

\* process p calls Create with the persisted machine and runs it as far as the
\* check by name and the check of the annotation (lines 243-311)
CreateCheckByName(p) ==
    /\ pc = "concurrent"
    /\ creates[p].pc = "idle"
    /\ \E env \in StepEnvs(CheckSites, {AnyInstanceChoice}) :
          LET r == CreateChecks(Ctx(stored, instances, nextId, client), stored, env)
          IN /\ stored' = r.c.st
             /\ creates' = AfterStep(p, r, FALSE)
    /\ UNCHANGED <<machine, instances, nextId, client, pc, polls, op, result, err,
                   failed, calls, events, afterCreate, cancelled, input, output, window>>

\* process p, which found no instance of the name, renders the user data and
\* calls computeService.CreateInstance (lines 312-341)
CreateTheInstance(p) ==
    /\ pc = "concurrent"
    /\ creates[p].pc = "absent"
    /\ \E env \in StepEnvs(InstanceSites, NewInstanceChoices) :
          Step(p, CreateUserDataAndInstance(CreateCtx(p), CreateMachine(p),
                                            CreateProviderSpec(p), env))

\* process p associates the floating IP, emits the event and sets the labels
\* of its in-memory machine (lines 343-364)
CreateAssociateFloatingIP(p) ==
    /\ pc = "concurrent"
    /\ creates[p].pc = "created"
    /\ \E env \in StepEnvs(FloatingIPSites, {AnyInstanceChoice}) :
          Step(p, CreateFloatingIP(CreateCtx(p), CreateMachine(p), CreateProviderSpec(p),
                                   Deref(creates[p].local), env))

\* process p enters updateAnnotation: it fetches the instance again and
\* resolves the primary IP (lines 657-680)
CreateLookup(p) ==
    /\ pc = "concurrent"
    /\ creates[p].pc = "annotate"
    /\ \E env \in StepEnvs(LookupSites, {AnyInstanceChoice}) :
          Step(p, updateAnnotationLookup(CreateCtx(p), CreateMachine(p),
                                         Deref(creates[p].local), InfrastructureName, env))

\* process p writes the machine record: oc.client.Update (line 682)
CreateClientUpdate(p) ==
    /\ pc = "concurrent"
    /\ creates[p].pc = "update"
    /\ \E env \in StepEnvs({<<"updateAnnotation", "client.Update">>}, {AnyInstanceChoice}) :
          Step(p, updateAnnotationUpdate(CreateCtx(p), CreateMachine(p),
                                         Deref(creates[p].local), env))

\* process p writes the status of the machine record when the addresses
\* differ: oc.client.Status().Update (lines 686-711)
CreateStatusUpdate(p) ==
    /\ pc = "concurrent"
    /\ creates[p].pc = "status"
    /\ \E env \in StepEnvs({<<"updateAnnotation", "client.Status.Update">>},
                          {AnyInstanceChoice}) :
          Step(p, updateAnnotationStatus(CreateCtx(p), CreateMachine(p),
                                         Deref(creates[p].local), env))

\* process p records the instance status: updateInstanceStatus fetches the
\* record itself and updates it (line 712), and Create returns
CreateInstanceStatus(p) ==
    /\ pc = "concurrent"
    /\ creates[p].pc = "instanceStatus"
    /\ \E env \in StepEnvs({<<"updateAnnotation", "updateInstanceStatus">>},
                          {AnyInstanceChoice}) :
          LET r == updateInstanceStatus(CreateCtx(p), CreateMachine(p), env)
          IN /\ stored' = r.c.st
             /\ creates' = AfterStep(p, r, FALSE)
    /\ UNCHANGED <<machine, instances, nextId, client, pc, polls, op, result, err,
                   failed, calls, events, afterCreate, cancelled, input, output, window>>

\* the Create of process p has returned: its control loop requeues the machine
CreateRequeue(p) ==
    /\ pc = "concurrent"
    /\ creates[p].pc = "returned"
    /\ creates' = [creates EXCEPT ![p] = NotInCreate]
    /\ UNCHANGED <<stored, machine, instances, nextId, client, pc, polls, op, result,
                   err, failed, calls, events, afterCreate, cancelled, input, output, window>>

ConcurrentNext ==
    \/ \E p \in Procs : CreateCheckByName(p)
    \/ \E p \in Procs : CreateTheInstance(p)
    \/ \E p \in Procs : CreateAssociateFloatingIP(p)
    \/ \E p \in Procs : CreateLookup(p)
    \/ \E p \in Procs : CreateClientUpdate(p)
    \/ \E p \in Procs : CreateStatusUpdate(p)
    \/ \E p \in Procs : CreateInstanceStatus(p)
    \/ \E p \in Procs : CreateRequeue(p)

ConcurrentSpec == ConcurrentInit /\ [][ConcurrentNext]_vars

----------------------------------------------------------------------------
(* Properties *)

\* the instances of the cloud that carry the machine's name
NamedInstances == {i \in instances : i.name = stored.name}

\* an operation has returned to the control loop
Returned(name) == pc = "returned" /\ op = name

\* the record carries the error mark the funnel leaves
Marked(m, reason) ==
    /\ m.status.errorReason = reason
    /\ m.status.errorMessage # <<>>
    /\ m.annotations.state = ErrorState

\* the observed machine of the persisted record exists and has the record's
\* name, spec metadata and provider spec
ObservedIdentical ==
    /\ stored.annotations.instanceStatus # Nil
    /\ Deref(stored.annotations.instanceStatus).name = stored.name
    /\ Deref(stored.annotations.instanceStatus).spec = stored.spec

\* C1: a Create that directly follows a Create that returned ok, with no call
\* failing, returns ok and is a no-op: it does not call CreateInstance, emits
\* no event, leaves the cloud and the machine record as they were, and there
\* is exactly one instance of the machine's name.
C1_CreateTwiceIsNoOp ==
    [][(pc = "idle" /\ afterCreate /\ op' = "Create" /\ failed' = NoFault)
        => /\ result' = "ok" /\ err' = ""
           /\ "CreateInstance" \notin calls'
           /\ "GetInstanceStatusByName" \in calls'
           /\ events' = {}
           /\ instances' = instances
           /\ stored' = stored
           /\ machine' = stored
           /\ Cardinality({i \in instances' : i.name = stored.name}) = 1]_vars

C1_Witness ==
    /\ Returned("Create") /\ afterCreate
    /\ result = "ok" /\ failed = NoFault
    /\ Cardinality(NamedInstances) = 1

\* C7: a Delete of a machine with no instance of its name, with no call
\* failing, returns ok, calls no DeleteInstance, emits no event and leaves the
\* cloud and the machine record as they were.
C7_DeleteAbsentIsNoOp ==
    [][(pc = "idle" /\ op' = "Delete" /\ failed' = NoFault
        /\ {i \in instances : i.name = stored.name} = {})
        => /\ result' = "ok" /\ err' = ""
           /\ "DeleteInstance" \notin calls'
           /\ events' = {}
           /\ instances' = instances
           /\ stored' = stored
           /\ machine' = stored]_vars

C7_Witness ==
    /\ Returned("Delete") /\ result = "ok" /\ failed = NoFault
    /\ NamedInstances = {}
    /\ "DeleteInstance" \notin calls
    /\ stored.annotations.id # ""

\* C8: an Update of a machine whose spec and name equal those of its observed
\* record, with no call failing, returns ok and creates and deletes no
\* instance.
C8_UpdateIdenticalIsNoOp ==
    [][(pc = "idle" /\ op' = "Update" /\ failed' = NoFault /\ ObservedIdentical)
        => /\ result' = "ok" /\ err' = ""
           /\ "CreateInstance" \notin calls'
           /\ "DeleteInstance" \notin calls'
           /\ instances' = instances
           /\ stored' = stored]_vars

C8_Witness ==
    /\ Returned("Update") /\ result = "ok" /\ failed = NoFault
    /\ ObservedIdentical
    /\ NamedInstances # {}

\* C9: an Update of a machine whose observed record is a control-plane machine
\* with another spec fails through the error funnel with an update error (the
\* funnel's own error when its record update fails), marks the machine, and
\* creates and deletes no instance.
C9_ControlPlaneUpdateRejected ==
    [][(pc = "idle" /\ op' = "Update" /\ failed' \in {NoFault, FunnelSite}
        /\ stored.annotations.instanceStatus # Nil
        /\ Deref(stored.annotations.instanceStatus).labels.master
        /\ Deref(stored.annotations.instanceStatus).spec # stored.spec)
        => /\ result' = "error"
           /\ err' = (IF failed' = NoFault THEN UpdateError ELSE UpdateStatusFailed)
           /\ "handleMachineError" \in calls'
           /\ <<"Warning", <<"Failed", updateEventAction>>>> \in events'
           /\ Marked(machine', UpdateError)
           /\ failed' = NoFault => stored' = machine'
           /\ calls' \cap {"CreateInstance", "DeleteInstance", "GetOrCreateFloatingIP",
                           "AssociateFloatingIP"} = {}
           /\ instances' = instances]_vars

C9_Witness ==
    /\ Returned("Update") /\ result = "error" /\ err = UpdateError
    /\ stored.labels.master
    /\ stored.spec.providerSpec.valid
    /\ stored.annotations.instanceStatus # Nil
    /\ Deref(stored.annotations.instanceStatus).spec.providerSpec.flavor
           # stored.spec.providerSpec.flavor
    /\ Marked(stored, UpdateError)

\* C10: a Create of a machine whose cluster label is not the infrastructure
\* name fails with the terminal validation error, leaves the persisted machine
\* record with the error reason, the error message and the ERROR marker, and
\* calls nothing of the cloud: no provider client, no instance lookup, no
\* CreateInstance.
C10_ClusterLabelMismatch ==
    [][(pc = "idle" /\ op' = "Create" /\ failed' \in {NoFault, FunnelSite}
        /\ stored.labels.cluster # InfrastructureName)
        => /\ result' = "error"
           /\ err' = InvalidConfiguration
           /\ Marked(stored', InvalidConfiguration)
           /\ calls' \subseteq {"Create", "Infrastructures.Get", "handleMachineError",
                                 "client.Update"}
           /\ instances' = instances]_vars

\* C10, as the code has it: such a Create fails, emits the FailedCreate
\* warning and calls nothing of the cloud. With a machine-record client and a
\* record update that succeeds it returns the validation error and the
\* persisted record carries the mark; with a record update that fails it
\* returns the funnel's own error and the persisted record is as before; with
\* no machine-record client it returns the validation error and nothing is
\* recorded, neither in memory nor on the persisted record.
C10_ClusterLabelMismatchRecordedWithClient ==
    [][(pc = "idle" /\ op' = "Create" /\ failed' \in {NoFault, FunnelSite}
        /\ stored.labels.cluster # InfrastructureName)
        => /\ result' = "error"
           /\ err' = (IF failed' = NoFault THEN InvalidConfiguration ELSE UpdateStatusFailed)
           /\ calls' \subseteq {"Create", "Infrastructures.Get", "handleMachineError",
                                 "client.Update"}
           /\ <<"Warning", <<"Failed", createEventAction>>>> \in events'
           /\ instances' = instances
           /\ client => Marked(machine', InvalidConfiguration)
           /\ (client /\ failed' = NoFault) => stored' = machine'
           /\ (client /\ failed' = FunnelSite) => stored' = stored
           /\ ~client => /\ failed' = NoFault
                         /\ "client.Update" \notin calls'
                         /\ stored' = stored
                         /\ machine' = stored]_vars

C10_Witness ==
    /\ Returned("Create") /\ result = "error" /\ err = InvalidConfiguration
    /\ stored.labels.cluster # InfrastructureName
    /\ Marked(stored, InvalidConfiguration)
    /\ calls = {"Create", "Infrastructures.Get", "handleMachineError", "client.Update"}

----------------------------------------------------------------------------
(* Properties of the operations, continued *)

\* the instances of the machine's name that the cloud is not deleting
LiveInstances == {i \in NamedInstances : ~i.deleting}

EngineOps == {"Create", "Update", "Delete"}

\* C2: an Update that replaced the instance of a worker machine and returned ok
\* ends with exactly one live instance of the machine's name, and that
\* instance has the flavor of the machine's spec; it never ends with none.
C2_UpdateReplaceKeepsOneInstance ==
    (Returned("Update") /\ result = "ok" /\ "PollImmediate" \in calls)
        => /\ Cardinality(LiveInstances) = 1
           /\ \A i \in LiveInstances : i.flavor = stored.spec.providerSpec.flavor

\* C3: a Create of a machine whose record carries an instance identifier and
\* that has no instance in the cloud, with no call failing, returns an error
\* and does not call CreateInstance.
C3_NoResurrection ==
    [][(pc = "idle" /\ op' = "Create" /\ failed' = NoFault
        /\ stored.annotations.id # ""
        /\ {i \in instances : i.name = stored.name} = {})
        => /\ result' = "error"
           /\ "CreateInstance" \notin calls'
           /\ instances' = instances]_vars

\* C4: whenever Create, Update or Delete returns an error to an engine that
\* has a machine-record client, the error went through the funnel and the
\* machine carries the error reason, the error message and the ERROR marker.
C4_EveryFailureThroughFunnel ==
    (pc = "returned" /\ op \in EngineOps /\ result = "error" /\ client)
        => /\ "handleMachineError" \in calls
           /\ machine.status.errorReason # ""
           /\ machine.status.errorMessage # <<>>
           /\ machine.annotations.state = ErrorState

\* C5: after every operation of an engine that has a machine-record client,
\* returned ok or with an error, whenever the machine has a live instance, the
\* record's instance identifier is that instance's id and the record's
\* lifecycle state is that instance's status.
C5_AnnotationsMatchLiveInstance ==
    (pc = "returned" /\ op \in EngineOps /\ client /\ result \in {"ok", "error"})
        => \A i \in LiveInstances :
              /\ stored.annotations.id = i.id
              /\ stored.annotations.state = i.status

\* C6: after every operation, a machine with no instance in the cloud carries
\* no instance identifier unless its lifecycle state is the ERROR marker.
C6_NoStaleIdentifier ==
    (pc = "returned" /\ op \in EngineOps /\ result = "ok" /\ NamedInstances = {})
        => \/ stored.annotations.id = ""
           \/ stored.annotations.state = ErrorState

\* the reasons of the machine errors the operations hand to the funnel
MachineErrorReasons == {InvalidConfiguration, CreateError, DeleteError, UpdateError}

\* C11: whenever Create or Delete, which return the funnel's result as it is,
\* went through the funnel, the error returned to the caller is the machine
\* error that was handed to the funnel.
C11_FunnelReturnsOriginalError ==
    (pc = "returned" /\ op \in {"Create", "Delete"} /\ "handleMachineError" \in calls)
        => /\ result = "error"
           /\ err \in MachineErrorReasons

\* the call sites that write the machine record
WriteSites ==
    { FunnelSite, <<"updateAnnotation", "client.Update">>,
      <<"updateAnnotation", "client.Status.Update">> }

\* C12: whenever a write of the machine record failed in Create or Delete (a
\* conflict with another writer is such a failure), the write was applied in
\* the end: the funnel's error mark, the recorder's instance identifier or the
\* recorder's node addresses are on the persisted record when the operation
\* returns.
C12_ConflictedWriteIsRetried ==
    (pc = "returned" /\ op \in {"Create", "Delete"} /\ failed \in WriteSites)
        => /\ failed = FunnelSite => stored.annotations.state = ErrorState
           /\ failed = <<"updateAnnotation", "client.Update">>
                 => stored.annotations.id = machine.annotations.id
           /\ failed = <<"updateAnnotation", "client.Status.Update">>
                 => stored.status.addresses # <<>>

\* the instances the lookup of instanceExists matches for the persisted machine
MatchingInstances ==
    {i \in instances : /\ i.name = stored.name
                       /\ i.image = stored.spec.providerSpec.image
                       /\ i.flavor = stored.spec.providerSpec.flavor}

\* C16: Exists changes neither the cloud nor the machine record and emits no
\* event; it returns an error when the lookup fails (the provider spec does
\* not parse, or the listing fails), and otherwise true exactly when the
\* lookup matches at least one instance.
C16_ExistsIsPureCheck ==
    [][(pc = "idle" /\ op' = "Exists")
        => /\ instances' = instances /\ nextId' = nextId
           /\ stored' = stored /\ machine' = stored
           /\ events' = {}
           /\ calls' = {"Exists", "instanceExists"}
           /\ IF ~stored.spec.providerSpec.valid \/ failed' = ExistsSite
              THEN result' = "error" /\ err' # ""
              ELSE /\ err' = ""
                   /\ result' = (IF MatchingInstances # {} THEN "true" ELSE "false")]_vars

C16_Witness ==
    /\ Returned("Exists") /\ result = "false" /\ failed = NoFault
    /\ NamedInstances # {} /\ MatchingInstances = {}

\* no observed machine is recorded and the lookup finds an ACTIVE instance
BootstrapCase ==
    /\ stored.annotations.instanceStatus = Nil
    /\ MatchingInstances # {}
    /\ FirstInstance(MatchingInstances).status = "ACTIVE"

\* C17: an Update by an engine that has a machine-record client, of a machine
\* with no observed record and a live ACTIVE instance, creates and deletes no instance, and when it returns ok the
\* persisted record has the labels, the instance identifier, the primary IP
\* and the lifecycle state of that instance.
C17_BootstrapPopulatesRecord ==
    [][(pc = "idle" /\ op' = "Update" /\ client /\ BootstrapCase)
        => /\ instances' \subseteq instances
           /\ \A i \in instances \ instances' : i.deleting
           /\ calls' \cap {"CreateInstance", "DeleteInstance"} = {}
           /\ result' = "ok" =>
                 LET i == FirstInstance(MatchingInstances) IN
                 /\ stored'.annotations.id = i.id
                 /\ stored'.annotations.state = i.status
                 /\ stored'.annotations.ip # ""
                 /\ stored'.labels.instanceType = i.flavor
                 /\ stored'.labels.region # "" /\ stored'.labels.zone # ""]_vars

\* C18: in every Update, Delete is called only after Create was called and did
\* not fail; when Create was called and failed, Update returns an error, calls
\* no Delete and no DeleteInstance, and every instance of the cloud stays; the
\* poll is entered only after Delete.
C18_CreateThenDeleteThenPoll ==
    [][(pc = "idle" /\ op' = "Update")
        => /\ "Delete" \in calls' =>
                 /\ "Create" \in calls'
                 /\ <<"Warning", <<"Failed", createEventAction>>>> \notin events'
                 /\ failed' \notin CreateSites
           /\ ("Create" \in calls' /\ "Delete" \notin calls') =>
                 /\ result' \in {"error", "panic"}
                 /\ "DeleteInstance" \notin calls'
                 /\ instances \subseteq instances'
           /\ "PollImmediate" \in calls' => "Delete" \in calls']_vars

C18_Witness ==
    /\ Returned("Update") /\ result = "error"
    /\ "Create" \in calls /\ "Delete" \notin calls
    /\ <<"Warning", <<"Failed", createEventAction>>>> \in events
    /\ LiveInstances # {}

\* C20: once the caller has cancelled the ctx, Update does not wait for
\* another round of the poll: its next step returns.
C20_PollStopsOnCancel ==
    [][(pc = "poll" /\ cancelled /\ polls' # polls) => pc' = "returned"]_vars

\* C19: the poll of Update always ends. A poll that has started leads to the
\* return of Update; a poll that ends before its timeout ends with ok, the
\* instance being absent; a poll that ends on its timeout ends with the delete
\* error handed to the funnel, which marks the machine and emits the
\* FailedUpdate event (and returns its own error when its record update fails).
C19_PollTerminates ==
    /\ (pc = "poll") ~> (pc = "returned")
    /\ [](pc = "poll" => polls <= MaxPolls)
    /\ [][(pc = "poll" /\ pc' = "returned")
           => IF ~PollTimedOut(Deref(window), polls)
              THEN /\ result' = "ok" /\ err' = ""
                   /\ MatchingInstances = {}
                   /\ <<"Normal", "Updated">> \in events'
              ELSE /\ result' = "error"
                   /\ err' = (IF failed' = FunnelSite THEN UpdateStatusFailed
                              ELSE DeleteError)
                   /\ "handleMachineError" \in calls'
                   /\ <<"Warning", <<"Failed", updateEventAction>>>> \in events'
                   /\ client => Marked(machine', DeleteError)
                   /\ (client /\ failed' # FunnelSite) => stored' = machine'
                   /\ instances' = instances]_vars

\* the parts that hold: the checks are bounded and each way to end has its
\* outcome
C19_PollOutcomes ==
    /\ [](pc = "poll" => polls <= MaxPolls)
    /\ [][(pc = "poll" /\ pc' = "returned")
           => IF ~PollTimedOut(Deref(window), polls)
              THEN /\ result' = "ok" /\ err' = ""
                   /\ MatchingInstances = {}
                   /\ <<"Normal", "Updated">> \in events'
              ELSE /\ result' = "error"
                   /\ "handleMachineError" \in calls'
                   /\ <<"Warning", <<"Failed", updateEventAction>>>> \in events'
                   /\ instances' = instances]_vars

C19_Witness ==
    /\ Returned("Update") /\ result = "error" /\ err = DeleteError
    /\ "PollImmediate" \in calls
    /\ Marked(stored, DeleteError)
    /\ MatchingInstances # {}

----------------------------------------------------------------------------
(* Properties of the functions *)

\* the function `fn` has been applied
Applied(fn) == input # Nil /\ Deref(input).fn = fn

\* C13: applied to an address map of exactly one network, getPrimaryMachineIP
\* returns that network's address and calls nothing: it does not read the
\* provider spec, resolves no provider client and looks up no network.
C13_SingleNetworkShortcut ==
    (Applied("getPrimaryMachineIP") /\ Cardinality(DOMAIN Deref(input).mapAddr) = 1)
        => LET mapAddr == Deref(input).mapAddr IN
           /\ Deref(output).res = "ok"
           /\ \A n \in DOMAIN mapAddr : Deref(output).ip = mapAddr[n]
           /\ Deref(output).calls = {}
           /\ Deref(output).failed = NoFault

C13_Witness ==
    /\ Applied("getPrimaryMachineIP")
    /\ DOMAIN Deref(input).mapAddr = {"net-b"}
    /\ ~Deref(input).machine.spec.providerSpec.valid
    /\ Deref(input).f = <<"getPrimaryMachineIP", "getProviderClient">>
    /\ Deref(output).res = "ok" /\ Deref(output).ip = "192.168.0.9"

\* C14: applied to an address map of no or of several networks, with a
\* provider spec that parses and no call failing, getPrimaryMachineIP selects
\* the network that owns the primary subnet when one is configured, without a
\* tag lookup, and otherwise the one network tagged
\* <clusterInfraName>-primaryClusterNetwork, without a subnet lookup; it
\* returns the address the map holds for the selected network's name, and an
\* error when no network or several are selected or the map has no such name.
C14_SubnetThenTag ==
    (/\ Applied("getPrimaryMachineIP")
     /\ Cardinality(DOMAIN Deref(input).mapAddr) # 1
     /\ Deref(input).machine.spec.providerSpec.valid
     /\ Deref(input).f = NoFault)
        => LET in == Deref(input)
               out == Deref(output)
               primarySubnet == in.machine.spec.providerSpec.primarySubnet
               selected ==
                   IF primarySubnet # ""
                   THEN {n \in in.networks : primarySubnet \in n.subnets}
                   ELSE {n \in in.networks :
                            <<in.clusterInfraName, PrimaryTag>> \in n.tags}
               names == {n.name : n \in selected} \cap DOMAIN in.mapAddr
           IN /\ primarySubnet # "" => "getNetworkByPrimaryNetworkTag" \notin out.calls
              /\ primarySubnet = "" => "getNetworkBySubnet" \notin out.calls
              /\ IF Cardinality(selected) = 1 /\ names # {}
                 THEN /\ out.res = "ok"
                      /\ \A n \in names : out.ip = in.mapAddr[n]
                 ELSE out.res = "error" /\ out.ip = ""

C14_Witness ==
    /\ Applied("getPrimaryMachineIP")
    /\ DOMAIN Deref(input).mapAddr = {"net-a", "net-b"}
    /\ Deref(input).machine.spec.providerSpec.primarySubnet = "sub-b"
    /\ Deref(input).networks = Networks
    /\ Deref(input).clusterInfraName = InfrastructureName
    /\ Deref(input).f = NoFault
    /\ Deref(output).res = "ok" /\ Deref(output).ip = "192.168.0.9"
    /\ "getNetworkByPrimaryNetworkTag" \notin Deref(output).calls

\* C15: applied to two present machine records of equal spec metadata, equal
\* provider spec and equal name, requiresUpdate returns false, whatever their
\* status holds.
C15_StatusNeverRequiresUpdate ==
    (/\ Applied("requiresUpdate")
     /\ Deref(input).a # Nil /\ Deref(input).b # Nil)
        => LET a == Deref(Deref(input).a)
               b == Deref(Deref(input).b)
           IN (/\ a.spec.meta = b.spec.meta
               /\ a.spec.providerSpec = b.spec.providerSpec
               /\ a.name = b.name)
                  => Deref(output).res = FALSE

C15_Witness ==
    /\ Applied("requiresUpdate")
    /\ Deref(input).a # Nil /\ Deref(input).b # Nil
    /\ Deref(Deref(input).a).status.errorReason # Deref(Deref(input).b).status.errorReason
    /\ Deref(Deref(input).a).status.addresses # Deref(Deref(input).b).status.addresses
    /\ Deref(output).res = FALSE

\* C21: the timeout Update gives to the poll is the configured number of
\* minutes when the variable holds a number, the default of five minutes when
\* it is not set or holds no number, and in every case a positive number of
\* minutes.
C21_TimeoutIsPositiveMinutes ==
    Applied("getTimeout")
        => LET v == Deref(input).v
               t == Deref(output).instanceDeleteTimeout
           IN  /\ (v = <<>> \/ Atoi(v).err # "") => t = TimeoutInstanceDelete * Minute
               /\ (v # <<>> /\ Atoi(v).err = "") => t = Atoi(v).n * Minute
               /\ t > 0

\* the two parts that hold: the configured number when there is one, the
\* default otherwise
C21_ConfiguredOrDefault ==
    Applied("getTimeout")
        => LET v == Deref(input).v
               t == Deref(output).instanceDeleteTimeout
           IN  /\ (v = <<>> \/ Atoi(v).err # "") => t = TimeoutInstanceDelete * Minute
               /\ (v # <<>> /\ Atoi(v).err = "") => t = Atoi(v).n * Minute

C21_NonPositiveTimeout ==
    /\ Applied("getTimeout")
    /\ Deref(input).v = <<"-", "3">>
    /\ Deref(output).instanceDeleteTimeout = 0 - 3 * Minute

----------------------------------------------------------------------------
(* Properties of the Recorder *)

StatusUpdateSite == <<"updateAnnotation", "client.Status.Update">>

\* the operation that has just run took updateAnnotation as far as its
\* comparison of the addresses (line 705): its status write failed, or it went
\* on to updateInstanceStatus
RecorderComparedAddresses ==
    "updateInstanceStatus" \in calls \/ failed = StatusUpdateSite

\* C22: an operation whose updateAnnotation gets as far as the node addresses
\* calls client.Status().Update exactly when the addresses it has built differ
\* from the addresses of the machine it was given; with the same addresses
\* there is no status write.
C22_StatusWriteOnlyOnChange ==
    [][(pc = "idle" /\ RecorderComparedAddresses')
          => (("client.Status.Update" \in calls')
                <=> (stored.status.addresses
                        # NodeAddresses(machine'.annotations.ip, machine'.name)))]_vars

\* updateAnnotation has recorded an instance whose addresses the record had
\* already: no status write
C22_Witness ==
    /\ pc = "returned" /\ op = "Update" /\ result = "ok"
    /\ "updateInstanceStatus" \in calls
    /\ "client.Status.Update" \notin calls
    /\ stored.status.addresses = NodeAddresses(machine.annotations.ip, machine.name)

----------------------------------------------------------------------------
(* Properties of Create and Exists together *)

\* C23: an Exists that directly follows a Create that returned ok, with no
\* other operation, no edit of the machine and no change of the cloud between
\* them, and whose lookup does not fail, returns true (the actuator has its
\* Kubernetes client).
C23_ExistsAfterCreate ==
    (Returned("Exists") /\ afterCreate /\ client /\ failed = NoFault)
        => result = "true"

----------------------------------------------------------------------------
(* Properties of overlapping Creates *)

\* C24: whatever the order in which two processes take the check by name and
\* the creation of the instance of their Creates for the same machine, the
\* cloud never holds two live instances of the machine's name.
C24_OneLiveInstancePerName == Cardinality(LiveInstances) <= 1

----------------------------------------------------------------------------
(* Properties of the Recorder's second lookup *)

RefetchSite == <<"updateAnnotation", "instanceExists">>

\* C25: an operation whose updateAnnotation fails to fetch the instance again
\* returns an error, it does not dereference the instance it has not got, and
\* the instance identifier annotation of the persisted record stays as it was.
C25_RefetchFailureIsAnError ==
    [][(pc = "idle" /\ client /\ failed' = RefetchSite)
          => /\ result' = "error"
             /\ stored'.annotations.id = stored.annotations.id]_vars

\* the part that holds: the identifier annotation is not persisted
C25_IdentifierNotPersisted ==
    [][(pc = "idle" /\ client /\ failed' = RefetchSite)
          => stored'.annotations.id = stored.annotations.id]_vars

====
